---- MODULE Spec2Model ----
(***************************************************************************)
(* Model of src/reader.py (read_data_from_url, convert_data_into_graph and *)
(* the __main__ block) and of the logger built by src/logging_utils.py.    *)
(*                                                                         *)
(* A text is a sequence of one-character strings.  str.split and int are   *)
(* modelled on characters; nx.Graph is modelled by its node set and its    *)
(* symmetric adjacency.                                                    *)
(***************************************************************************)
EXTENDS Integers, Sequences, FiniteSets, TLC

VARIABLES pc, data, record_list, i, g, result, exc, log, resp, gets, leftover

vars == <<pc, data, record_list, i, g, result, exc, log, resp, gets, leftover>>

----------------------------------------------------------------------------
(* Characters *)

NL == "\n"
SP == " "

Digits == {"0", "1", "2", "3", "4", "5", "6", "7", "8", "9"}

DigitVal(c) ==
    CASE c = "0" -> 0 [] c = "1" -> 1 [] c = "2" -> 2 [] c = "3" -> 3
      [] c = "4" -> 4 [] c = "5" -> 5 [] c = "6" -> 6 [] c = "7" -> 7
      [] c = "8" -> 8 [] c = "9" -> 9

----------------------------------------------------------------------------
(* Python built-ins used by convert_data_into_graph *)

\* The index of the first occurrence of sep in s (0 when there is none).
Find(s, sep) ==
    IF \E k \in 1..Len(s) : s[k] = sep
    THEN CHOOSE k \in 1..Len(s) : s[k] = sep /\ \A j \in 1..(k - 1) : s[j] # sep
    ELSE 0

\* str.split(sep) with a one-character separator: always at least one piece,
\* empty pieces are kept.
RECURSIVE Split(_, _)
Split(s, sep) ==
    LET k == Find(s, sep)
    IN  IF k = 0
        THEN <<s>>
        ELSE <<SubSeq(s, 1, k - 1)>> \o Split(SubSeq(s, k + 1, Len(s)), sep)

\* Fault: the whole list is kept.
DropLastKeepAll(seq) == seq

\* Fault: every trailing blank element is dropped, and nothing else.
DropLastStripBlank(seq) ==
    LET keep == {k \in 1..Len(seq) : \E j \in k..Len(seq) : seq[j] # <<>>}
    IN  SubSeq(seq, 1, Cardinality(keep))

\* seq[:-1]: every element but the last (empty for an empty or one-element list).
DropLast(seq) == SubSeq(seq, 1, Len(seq) - 1)

\* The three-target unpacking "a, b, c = toks" succeeds only for three tokens.
Unpacks3(toks) == Len(toks) = 3

\* int(tok) for a token over digits and signs: an optional sign and at least one
\* digit.  (int also accepts surrounding whitespace and single underscores
\* between digits; the input alphabet holds neither.)
Unsigned(tok) ==
    IF Len(tok) > 0 /\ tok[1] \in {"+", "-"} THEN Tail(tok) ELSE tok

\* Fault: every token converts.
IsIntLenient(tok) == TRUE

IsInt(tok) ==
    /\ Len(Unsigned(tok)) > 0
    /\ \A k \in 1..Len(Unsigned(tok)) : Unsigned(tok)[k] \in Digits

RECURSIVE Magnitude(_)
Magnitude(ds) ==
    IF Len(ds) = 0 \/ \E k \in 1..Len(ds) : ds[k] \notin Digits
    THEN 0
    ELSE 10 * Magnitude(SubSeq(ds, 1, Len(ds) - 1)) + DigitVal(ds[Len(ds)])

int(tok) ==
    IF Len(tok) > 0 /\ tok[1] = "-"
    THEN 0 - Magnitude(Unsigned(tok))
    ELSE Magnitude(Unsigned(tok))

\* Fault: the weight is taken for v.
EndpointsWeightAsV(toks) == <<toks[1], toks[3]>>

\* "u, v, w = toks": the two tokens that become the endpoints of the edge.
Endpoints(toks) == <<toks[1], toks[2]>>

\* Fault: the identifier stays 1-indexed.
NodeIdNoShift(tok) == int(tok)

\* int(tok) - 1: a 1-indexed endpoint as a 0-indexed node identifier.
NodeId(tok) == int(tok) - 1

----------------------------------------------------------------------------
(* networkx.Graph as used by the parser *)

EmptyGraph == [node |-> {}, adj |-> {}]

\* Fault: the edge is stored in one direction only.
add_edge_directed(G, a, b) ==
    [node |-> G.node \cup {a, b}, adj |-> G.adj \cup {<<a, b>>}]

\* Fault: a self-loop is dropped.
add_edge_no_loops(G, a, b) ==
    IF a = b
    THEN [node |-> G.node \cup {a}, adj |-> G.adj]
    ELSE [node |-> G.node \cup {a, b}, adj |-> G.adj \cup {<<a, b>>, <<b, a>>}]

\* Graph.add_edge(a, b): both nodes are added, the edge is stored in both
\* directions; adding it again changes nothing.
add_edge(G, a, b) ==
    [node |-> G.node \cup {a, b}, adj |-> G.adj \cup {<<a, b>>, <<b, a>>}]

number_of_nodes(G) == Cardinality(G.node)

\* Graph.degree: the number of neighbours, a self-loop counted twice.
Degree(G, n) ==
    Cardinality({m \in G.node : <<n, m>> \in G.adj})
        + (IF <<n, n>> \in G.adj THEN 1 ELSE 0)

RECURSIVE SumDegrees(_, _)
SumDegrees(G, S) ==
    IF S = {}
    THEN 0
    ELSE LET n == CHOOSE x \in S : TRUE
         IN  Degree(G, n) + SumDegrees(G, S \ {n})

\* Graph.number_of_edges(): half the sum of the degrees.
number_of_edges(G) == SumDegrees(G, G.node) \div 2

\* The undirected edges of a graph, each as the set of its endpoints.
Edges(G) == {{p[1], p[2]} : p \in G.adj}

----------------------------------------------------------------------------
(* The logger of logging_utils.get_logger_handle *)

INFO == 20
DEBUG == 10

LoggerLevel == INFO

Emit(lg, levelno, msg, args) ==
    IF levelno >= LoggerLevel THEN Append(lg, [msg |-> msg, args |-> args]) ELSE lg

----------------------------------------------------------------------------
(* Values *)

NoneData == [isNone |-> TRUE, text |-> <<>>]
StrData(t) == [isNone |-> FALSE, text |-> t]

NoResult == [present |-> FALSE, graph |-> EmptyGraph]
GraphResult(G) == [present |-> TRUE, graph |-> G]

NoResp == [status_code |-> 0, text |-> <<>>]

HTTP_OK == 200
Statuses == {200, 204, 404, 500}

----------------------------------------------------------------------------
(* Inputs: the texts handed to the parser *)

MaxEdgeLines == 2

\* "\n".join / " ".join of the pieces.
RECURSIVE Cat(_, _)
Cat(pieces, sep) ==
    IF Len(pieces) = 0 THEN <<>>
    ELSE IF Len(pieces) = 1 THEN pieces[1]
    ELSE pieces[1] \o <<sep>> \o Cat(Tail(pieces), sep)

Line3(a, b, c) == Cat(<<a, b, c>>, SP)

EndpointTokens == {<<"1">>, <<"2">>}

HeaderLines ==
    { Line3(<<"3">>, <<"2">>, <<"0">>),      \* "3 2 0"
      Line3(<<"9">>, <<"0">>, <<"x">>),      \* "9 0 x": counts that match nothing
      Cat(<<(<<"3">>), (<<"2">>)>>, SP) }    \* "3 2": two tokens

GoodEdgeLines ==
    { Line3(a, b, <<"5">>) : a \in EndpointTokens, b \in EndpointTokens }
      \cup { Line3(<<"1">>, <<"2">>, <<"x">>),          \* "1 2 x"
             Line3(<<"2">>, <<"1">>, <<"7">>),          \* "2 1 7"
             Line3(<<"0">>, <<"3">>, <<"7">>),          \* "0 3 7"
             Line3(<<"1", "0">>, <<"-", "1">>, <<"5">>) }   \* "10 -1 5"

BadEdgeLines ==
    { <<>>,                                             \* a blank line
      Cat(<<(<<"1">>), (<<"2">>)>>, SP),                \* "1 2"
      Cat(<<(<<"1">>), (<<"2">>), (<<"5">>), (<<"7">>)>>, SP),   \* "1 2 5 7"
      Line3(<<"x">>, <<"2">>, <<"5">>),                 \* "x 2 5"
      Line3(<<"1">>, <<"-">>, <<"5">>),                 \* "1 - 5"
      Line3(<<"1">>, <<>>, <<"2">>) }                   \* "1  2": an empty token

EdgeLines == GoodEdgeLines \cup BadEdgeLines

\* What follows the last newline: nothing, an unterminated edge line, or junk.
LastSegments == { <<>>, Line3(<<"2">>, <<"3">>, <<"7">>), <<"x">> }

EdgeLineLists == UNION { [1..n -> EdgeLines] : n \in 0..MaxEdgeLines }

\* "3 2 0\n1 2 5\n2 3 7\n\n"
ScenarioText ==
    Cat(<<Line3(<<"3">>, <<"2">>, <<"0">>), Line3(<<"1">>, <<"2">>, <<"5">>),
          Line3(<<"2">>, <<"3">>, <<"7">>), <<>>, <<>>>>, NL)

Texts ==
    { Cat(<<h>> \o b \o <<t>>, NL) : h \in HeaderLines, b \in EdgeLineLists, t \in LastSegments }
      \cup LastSegments
      \cup {ScenarioText}

\* The bodies a response of status s may carry: any text on 200; on another
\* status an empty body, junk, or a well-formed graph text.
ErrorBodies ==
    { <<>>, <<"x">>,
      Cat(<<Line3(<<"3">>, <<"2">>, <<"0">>), Line3(<<"1">>, <<"2">>, <<"5">>), <<>>>>, NL) }

Bodies(s) == IF s = 200 THEN Texts ELSE ErrorBodies

----------------------------------------------------------------------------
(* State *)

NoExc == "none"

\* pc: "idle" (control at a caller of the parser), "main", "get", "fetched" (the
\* entry point before, during and after the fetch), "loop" (in the for loop,
\* before iteration i), "returning" / "raising" (the parser is leaving with a
\* graph / an exception, its frame still there).
\* log: what the current call has sent to the stream handler so far.
\* leftover: whether an earlier call left a non-empty graph object behind.
Init ==
    /\ pc = "idle"
    /\ data = NoneData
    /\ record_list = <<>>
    /\ i = 0
    /\ g = EmptyGraph
    /\ result = NoResult
    /\ exc = NoExc
    /\ log = <<>>
    /\ resp = NoResp
    /\ gets = 0
    /\ leftover = FALSE

\* The lines the loop iterates over: record_list[:-1].
Lines == DropLast(record_list)

\* An exception leaves the function at once; nothing is returned.
Raise(e) ==
    /\ pc' = "raising"
    /\ exc' = e
    /\ UNCHANGED <<data, record_list, i, g, result, log, resp, gets, leftover>>

----------------------------------------------------------------------------
(* convert_data_into_graph *)

\* Fault: the graph is not created afresh (one graph shared by all calls).
EnterKeepGraph(d) ==
    /\ data' = d
    /\ result' = NoResult
    /\ log' = <<>>
    /\ leftover' = (g # EmptyGraph)
    /\ IF d.isNone
       THEN /\ pc' = "raising"
            /\ exc' = "AttributeError"
            /\ UNCHANGED <<record_list, i, g>>
       ELSE /\ pc' = "loop"
            /\ exc' = NoExc
            /\ record_list' = Split(d.text, NL)
            /\ g' = g
            /\ i' = 0

\* Lines 17-18 for the argument d: the split of a missing value raises
\* AttributeError before any graph exists; otherwise the list of segments and a
\* fresh empty graph.
Enter(d) ==
    /\ data' = d
    /\ result' = NoResult
    /\ log' = <<>>
    /\ leftover' = (g # EmptyGraph)
    /\ IF d.isNone
       THEN /\ pc' = "raising"
            /\ exc' = "AttributeError"
            /\ UNCHANGED <<record_list, i, g>>
       ELSE /\ pc' = "loop"
            /\ exc' = NoExc
            /\ record_list' = Split(d.text, NL)
            /\ g' = EmptyGraph
            /\ i' = 0

\* A caller hands a text to the parser.
Call ==
    /\ pc = "idle"
    /\ \E t \in Texts : Enter(StrData(t))
    /\ UNCHANGED <<resp, gets>>

\* Lines 19-23, the iteration with i = 0: the header.
LoopHeader ==
    /\ pc = "loop"
    /\ i = 0
    /\ i < Len(Lines)
    /\ LET toks == Split(Lines[i + 1], SP)
       IN  IF ~Unpacks3(toks)
           THEN Raise("ValueError")
           ELSE /\ log' = Emit(log, INFO, "Expect number of nodes and edges",
                               <<toks[1], toks[2]>>)
                /\ i' = i + 1
                /\ UNCHANGED <<pc, data, record_list, g, result, exc, resp, gets, leftover>>

\* Lines 19, 24-26, an iteration with i > 0: an edge line.
LoopEdge ==
    /\ pc = "loop"
    /\ i > 0
    /\ i < Len(Lines)
    /\ LET toks == Split(Lines[i + 1], SP)
       IN  IF ~Unpacks3(toks)
           THEN Raise("ValueError")
           ELSE LET u == Endpoints(toks)[1]
                    v == Endpoints(toks)[2]
                IN  IF ~IsInt(u) \/ ~IsInt(v)
                    THEN Raise("ValueError")
                    ELSE /\ g' = add_edge(g, NodeId(u), NodeId(v))
                         /\ log' = Emit(log, DEBUG, "Added an edge", toks)
                         /\ i' = i + 1
                         /\ UNCHANGED <<pc, data, record_list, result, exc, resp, gets,
                                        leftover>>

\* Lines 27-29: the loop is over; the totals are logged and g is returned.
Finish ==
    /\ pc = "loop"
    /\ i = Len(Lines)
    /\ log' = Emit(Emit(log, INFO, "Total number of nodes", <<number_of_nodes(g)>>),
                   INFO, "Total number of edges", <<number_of_edges(g)>>)
    /\ result' = GraphResult(g)
    /\ pc' = "returning"
    /\ UNCHANGED <<data, record_list, i, g, exc, resp, gets, leftover>>

\* Control is back at the caller: the frame (data, record_list, i) is gone, the
\* returned graph object lives on.
Return ==
    /\ pc = "returning"
    /\ pc' = "idle"
    /\ data' = NoneData
    /\ record_list' = <<>>
    /\ i' = 0
    /\ log' = <<>>
    /\ UNCHANGED <<g, result, exc, resp, gets, leftover>>

\* The exception reaches the caller: the frame is gone, nothing was returned.
Unwind ==
    /\ pc = "raising"
    /\ pc' = "idle"
    /\ data' = NoneData
    /\ record_list' = <<>>
    /\ i' = 0
    /\ log' = <<>>
    /\ UNCHANGED <<g, result, exc, resp, gets, leftover>>

\* The parser as a function of its text, run from a fresh frame: the outcome of
\* lines 17-29 on the lines from index k on, with graph G built so far.
RECURSIVE ParseFrom(_, _, _)
ParseFrom(lines, k, G) ==
    IF k = Len(lines)
    THEN [ok |-> TRUE, graph |-> G]
    ELSE LET toks == Split(lines[k + 1], SP)
         IN  IF ~Unpacks3(toks)
             THEN [ok |-> FALSE, graph |-> EmptyGraph]
             ELSE IF k = 0
                  THEN ParseFrom(lines, k + 1, G)
                  ELSE IF ~IsInt(Endpoints(toks)[1]) \/ ~IsInt(Endpoints(toks)[2])
                       THEN [ok |-> FALSE, graph |-> EmptyGraph]
                       ELSE ParseFrom(lines, k + 1,
                                      add_edge(G, NodeId(Endpoints(toks)[1]),
                                               NodeId(Endpoints(toks)[2])))

convert_data_into_graph(t) == ParseFrom(DropLast(Split(t, NL)), 0, EmptyGraph)

----------------------------------------------------------------------------
(* read_data_from_url and the entry point *)

\* Fault: every status below 400 counts as success.
ReturnValueIfOk(r) ==
    IF r.status_code < 400 THEN StrData(r.text) ELSE NoneData

\* Lines 13-14: the body on status 200; otherwise the function falls off its
\* end and returns None.
ReturnValue(r) ==
    IF r.status_code = HTTP_OK THEN StrData(r.text) ELSE NoneData

InitMain ==
    /\ pc = "main"
    /\ data = NoneData
    /\ record_list = <<>>
    /\ i = 0
    /\ g = EmptyGraph
    /\ result = NoResult
    /\ exc = NoExc
    /\ log = <<>>
    /\ resp = NoResp
    /\ gets = 0
    /\ leftover = FALSE

\* Lines 36 and 12: the entry point calls read_data_from_url, which sends its GET.
Get ==
    /\ pc = "main"
    /\ pc' = "get"
    /\ gets' = gets + 1
    /\ UNCHANGED <<data, record_list, i, g, result, exc, log, resp, leftover>>

\* Lines 12-14 and 36: a response arrives, with any status and a body; the
\* function returns and the entry point binds the value to data.
GetResponds ==
    /\ pc = "get"
    /\ \E s \in Statuses : \E t \in Bodies(s) :
          /\ resp' = [status_code |-> s, text |-> t]
          /\ data' = ReturnValue(resp')
    /\ pc' = "fetched"
    /\ UNCHANGED <<record_list, i, g, result, exc, log, gets, leftover>>

\* Line 12: requests.get raises on a network-level fault; nothing catches it.
GetFails ==
    /\ pc = "get"
    /\ Raise("ConnectionError")

\* Fault: the entry point skips the parser when data is None.
MainConvertGuarded ==
    /\ pc = "fetched"
    /\ IF data.isNone
       THEN /\ pc' = "idle"
            /\ UNCHANGED <<data, record_list, i, g, result, exc, log, leftover>>
       ELSE Enter(data)
    /\ UNCHANGED <<resp, gets>>

\* Line 37: the entry point hands data to the parser, whatever it is.
MainConvert ==
    /\ pc = "fetched"
    /\ Enter(data)
    /\ UNCHANGED <<resp, gets>>

----------------------------------------------------------------------------
(* Specifications *)

\* The parser called any number of times by a caller that survives its errors.
Next == Call \/ LoopHeader \/ LoopEdge \/ Finish \/ Return \/ Unwind

Spec == Init /\ [][Next]_vars

\* The module run as a script: fetch, then parse, then exit.
NextMain ==
    \/ Get \/ GetResponds \/ GetFails \/ MainConvert
    \/ LoopHeader \/ LoopEdge \/ Finish \/ Return \/ Unwind

SpecMain == InitMain /\ [][NextMain]_vars

----------------------------------------------------------------------------
(* The input format, as the specification describes it *)

Positions(s, c) == {k \in 1..Len(s) : s[k] = c}

NumPieces(s, c) == Cardinality(Positions(s, c)) + 1

\* The position of the n-th occurrence of c in s.
NthPosition(s, c, n) ==
    CHOOSE p \in Positions(s, c) : Cardinality({q \in Positions(s, c) : q < p}) = n - 1

\* The k-th of the pieces that the occurrences of c cut s into.
Piece(s, c, k) ==
    SubSeq(s,
           IF k = 1 THEN 1 ELSE NthPosition(s, c, k - 1) + 1,
           IF k = NumPieces(s, c) THEN Len(s) ELSE NthPosition(s, c, k) - 1)

Segment(t, k) == Piece(t, NL, k)
NumSegments(t) == NumPieces(t, NL)

\* The segments the parser is to process: all but the last.
Processed(t) == 1..(NumSegments(t) - 1)
EdgeSegments(t) == 2..(NumSegments(t) - 1)

ThreeTokens(seg) == Cardinality(Positions(seg, SP)) = 2

\* A decimal integer numeral: an optional sign, then one digit or more.
Numeral(tok) ==
    \E d \in {0, 1} :
        /\ d < Len(tok)
        /\ d = 1 => tok[1] \in {"+", "-"}
        /\ \A k \in (d + 1)..Len(tok) : tok[k] \in Digits

\* The integer a numeral denotes, read from the left.
RECURSIVE Denotes(_, _)
Denotes(ds, acc) ==
    IF Len(ds) = 0 THEN acc ELSE Denotes(Tail(ds), 10 * acc + DigitVal(Head(ds)))

Value(tok) ==
    IF tok[1] = "-" THEN 0 - Denotes(Tail(tok), 0)
    ELSE IF tok[1] = "+" THEN Denotes(Tail(tok), 0)
    ELSE Denotes(tok, 0)

UToken(seg) == Piece(seg, SP, 1)
VToken(seg) == Piece(seg, SP, 2)

\* Segment k is a line the format allows: three tokens, and on an edge line
\* integer endpoints.
SegmentOK(t, k) ==
    /\ ThreeTokens(Segment(t, k))
    /\ k > 1 => Numeral(UToken(Segment(t, k))) /\ Numeral(VToken(Segment(t, k)))

EndsWithNewline(t) == Len(t) > 0 /\ t[Len(t)] = NL

WellFormed(t) == EndsWithNewline(t) /\ \A k \in Processed(t) : SegmentOK(t, k)

\* The endpoints (u, v) of edge segment k, as integers.
U(t, k) == Value(UToken(Segment(t, k)))
V(t, k) == Value(VToken(Segment(t, k)))

ExpectedNodes(t) ==
    {U(t, k) - 1 : k \in EdgeSegments(t)} \cup {V(t, k) - 1 : k \in EdgeSegments(t)}

ExpectedEdges(t) == {{U(t, k) - 1, V(t, k) - 1} : k \in EdgeSegments(t)}

\* The parser is leaving, one way or the other, and its text is still in view.
Leaving == pc \in {"returning", "raising"} /\ ~data.isNone
Returning == pc = "returning" /\ ~data.isNone

Text == data.text

NumEdgeLines(t) == Cardinality(EdgeSegments(t))

----------------------------------------------------------------------------
(* Claims about convert_data_into_graph, under Spec *)

\* C1: for every well-formed text the call returns, and the returned graph's
\* node set is exactly the set of endpoints minus 1 and its edge set exactly the
\* set of unordered pairs {u-1, v-1} of the edge lines: a repeated or reversed
\* pair appears once, a line with u = v is a self-loop {u-1}.
C1_GraphOfWellFormedText ==
    (Leaving /\ WellFormed(Text)) =>
        /\ pc = "returning"
        /\ result.present
        /\ result.graph.node = ExpectedNodes(Text)
        /\ Edges(result.graph) = ExpectedEdges(Text)
        /\ \A k \in EdgeSegments(Text) :
              U(Text, k) = V(Text, k) => {U(Text, k) - 1} \in Edges(result.graph)

\* A well-formed text whose two edge lines give the same pair in reversed order
\* has been parsed into one edge.
C1_Witness ==
    /\ Returning
    /\ WellFormed(Text)
    /\ NumEdgeLines(Text) = 2
    /\ U(Text, 2) = V(Text, 3)
    /\ V(Text, 2) = U(Text, 3)
    /\ U(Text, 2) # V(Text, 2)
    /\ Cardinality(Edges(result.graph)) = 1

BlankProcessed(t) == \E k \in Processed(t) : Segment(t, k) = <<>>

\* C2 as stated: the text "3 2 0\n1 2 5\n2 3 7\n\n" parses to the graph with
\* nodes {0,1,2} and edges {(0,1), (1,2)}, and in general a blank segment that
\* is not the last one does not keep the parser from returning the graph of the
\* other lines.
C2_BlankLineTolerated ==
    Leaving =>
        /\ Text = ScenarioText =>
              /\ pc = "returning"
              /\ result.graph.node = {0, 1, 2}
              /\ Edges(result.graph) = {{0, 1}, {1, 2}}
        /\ (\A k \in Processed(Text) : SegmentOK(Text, k) \/ Segment(Text, k) = <<>>)
              => pc = "returning"

\* C2 amended: on the text "3 2 0\n1 2 5\n2 3 7\n\n" the parser raises
\* ValueError at the blank fourth segment, after adding the edges (0,1) and
\* (1,2) to a graph it never returns; in general a blank segment that is not the
\* last one makes the call end in an error with no graph returned.
C2_BlankLineIsFatal ==
    Leaving =>
        /\ Text = ScenarioText =>
              /\ pc = "raising"
              /\ exc = "ValueError"
              /\ i = 3
              /\ g.node = {0, 1, 2}
              /\ Edges(g) = {{0, 1}, {1, 2}}
              /\ ~result.present
        /\ BlankProcessed(Text) =>
              /\ pc = "raising"
              /\ exc = "ValueError"
              /\ ~result.present

C2_Witness ==
    /\ pc = "raising"
    /\ ~data.isNone
    /\ Text = ScenarioText
    /\ Segment(Text, i + 1) = <<>>

\* C4: if a processed segment (any but the last) does not split into exactly
\* three tokens, or an edge line has a u or v that is no integer, the call ends
\* in an error and returns no graph; the loop never gets past such a segment.
C4_MalformedLineIsFatal ==
    ~data.isNone =>
        /\ pc \in {"loop", "returning"} => \A k \in 1..i : SegmentOK(Text, k)
        /\ (Leaving /\ \E k \in Processed(Text) : ~SegmentOK(Text, k)) =>
              /\ pc = "raising"
              /\ exc = "ValueError"
              /\ ~SegmentOK(Text, i + 1)
        /\ pc = "raising" => ~result.present

\* The parser fails on an edge line with a non-integer endpoint after it has
\* added edges from the lines before it.
C4_Witness ==
    /\ pc = "raising"
    /\ ~data.isNone
    /\ i >= 2
    /\ g # EmptyGraph
    /\ ThreeTokens(Segment(Text, i + 1))
    /\ ~result.present

NoRepeatedPair(t) ==
    \A j \in EdgeSegments(t), k \in EdgeSegments(t) :
        j # k => {U(t, j), V(t, j)} # {U(t, k), V(t, k)}

NoSelfLoop(t) == \A k \in EdgeSegments(t) : U(t, k) # V(t, k)

\* C5: for a well-formed text the returned graph has at most as many edges as
\* the text has edge lines, and exactly as many when no unordered pair repeats
\* and no line is a self-loop.
C5_EdgeCount ==
    (Returning /\ WellFormed(Text)) =>
        /\ number_of_edges(result.graph) <= NumEdgeLines(Text)
        /\ (NoRepeatedPair(Text) /\ NoSelfLoop(Text)) =>
              number_of_edges(result.graph) = NumEdgeLines(Text)

C5_Witness ==
    /\ Returning
    /\ WellFormed(Text)
    /\ NumEdgeLines(Text) = 2
    /\ NoRepeatedPair(Text)
    /\ NoSelfLoop(Text)
    /\ number_of_edges(result.graph) = 2

\* C6: whatever calls came before, a call on text T ends as a call on T from a
\* fresh start does: it returns exactly when that one does, and then the same
\* graph; nothing of an earlier call's graph is in it.
C6_HistoryFree ==
    Leaving =>
        /\ (pc = "returning") = convert_data_into_graph(Text).ok
        /\ pc = "returning" =>
              /\ result.graph = convert_data_into_graph(Text).graph
              /\ g = result.graph

\* After a call that left a non-empty graph, a call returns the empty graph.
C6_Witness ==
    /\ Returning
    /\ leftover
    /\ result.present
    /\ result.graph = EmptyGraph

\* C7: for a well-formed text, at every step of the loop and in the returned
\* graph, each node is the u or v of an edge line already processed, minus 1;
\* and when every endpoint of the text is >= 1 no node is negative.
C7_NodeIdentifiers ==
    (pc \in {"loop", "returning"} /\ ~data.isNone /\ WellFormed(Text)) =>
        /\ \A n \in g.node :
              \E k \in EdgeSegments(Text) :
                  k <= i /\ (n = U(Text, k) - 1 \/ n = V(Text, k) - 1)
        /\ (\A k \in EdgeSegments(Text) : U(Text, k) >= 1 /\ V(Text, k) >= 1)
              => \A n \in g.node : n >= 0
        /\ pc = "returning" => result.graph = g

\* In the middle of the loop over a text whose endpoints are all >= 1.
C7_Witness ==
    /\ pc = "loop"
    /\ ~data.isNone
    /\ WellFormed(Text)
    /\ NumEdgeLines(Text) = 2
    /\ i = 2
    /\ g.node = {0, 1}
    /\ \A k \in EdgeSegments(Text) : U(Text, k) >= 1 /\ V(Text, k) >= 1

VariantHeaders ==
    { Line3(<<"3">>, <<"2">>, <<"0">>), Line3(<<"9">>, <<"0">>, <<"x">>),
      Line3(<<"0">>, <<"7">>, <<"1">>) }

WeightTokens == { <<"5">>, <<"7">>, <<"x">> }

\* The well-formed texts with the endpoint tokens of t, any of the headers and
\* any weights.
Variants(t) ==
    { Cat(<<h>>
            \o [k \in 1..NumEdgeLines(t) |->
                   Line3(UToken(Segment(t, k + 1)), VToken(Segment(t, k + 1)), w[k])]
            \o <<(<<>>)>>, NL) :
        h \in VariantHeaders, w \in [1..NumEdgeLines(t) -> WeightTokens] }

\* C8: the returned graph depends on the u and v tokens only: every well-formed
\* text with the same endpoint tokens, whatever its header tokens and weights,
\* parses to the same graph.
C8_HeaderAndWeightsIgnored ==
    (Returning /\ WellFormed(Text)) =>
        \A t2 \in Variants(Text) :
            /\ convert_data_into_graph(t2).ok
            /\ convert_data_into_graph(t2).graph = result.graph

\* A text whose header declares 9 nodes and 0 edges and whose first weight is
\* not a number has been parsed into a graph with an edge.
C8_Witness ==
    /\ Returning
    /\ WellFormed(Text)
    /\ Segment(Text, 1) = Line3(<<"9">>, <<"0">>, <<"x">>)
    /\ NumEdgeLines(Text) = 2
    /\ Piece(Segment(Text, 2), SP, 3) = <<"x">>
    /\ Cardinality(result.graph.node) >= 2
    /\ Text \in Variants(Text)
    /\ Cardinality(Variants(Text)) > 1

\* The text up to and including its last newline.
WithoutLastSegment(t) ==
    IF NumSegments(t) = 1 THEN <<>> ELSE SubSeq(t, 1, NthPosition(t, NL, NumSegments(t) - 1))

\* C9: the loop runs over exactly the segments before the last newline and the
\* last segment is never looked at: the call ends as it does on the text cut
\* after its last newline, an error never comes from the last segment, and a
\* text with no newline gives the empty graph with no header read.
C9_LastSegmentIgnored ==
    (pc \in {"loop", "returning", "raising"} /\ ~data.isNone) =>
        /\ Len(Lines) = NumSegments(Text) - 1
        /\ i <= NumSegments(Text) - 1
        /\ pc = "raising" => i + 1 <= NumSegments(Text) - 1
        /\ pc = "returning" =>
              /\ i = NumSegments(Text) - 1
              /\ result.graph.node = ExpectedNodes(Text)
              /\ Edges(result.graph) = ExpectedEdges(Text)
        /\ pc # "loop" =>
              /\ (pc = "returning") = convert_data_into_graph(WithoutLastSegment(Text)).ok
              /\ pc = "returning" =>
                    result.graph = convert_data_into_graph(WithoutLastSegment(Text)).graph
        /\ NumSegments(Text) = 1 =>
              /\ pc # "raising"
              /\ g = EmptyGraph
              /\ \A k \in 1..Len(log) : log[k].msg # "Expect number of nodes and edges"

\* A text that ends in the unterminated edge line "2 3 7" has been parsed: the
\* graph has the earlier edge and no node 2.
C9_Witness ==
    /\ Returning
    /\ NumSegments(Text) = 3
    /\ Segment(Text, 3) = Line3(<<"2">>, <<"3">>, <<"7">>)
    /\ result.graph.node = {0, 1}

----------------------------------------------------------------------------
(* Claims about read_data_from_url and the entry point, under SpecMain *)

\* C3: a call sends exactly one GET; for every response status it returns
\* without raising, the body on status 200 and None on any other status.
C3_FetchReturnValue ==
    /\ pc = "get" => gets = 1 /\ resp = NoResp
    /\ resp # NoResp => gets = 1 /\ exc # "ConnectionError"
    /\ pc = "fetched" =>
          /\ exc = NoExc
          /\ resp # NoResp
          /\ data = IF resp.status_code = 200
                    THEN [isNone |-> FALSE, text |-> resp.text]
                    ELSE NoneData

C3_Witness ==
    /\ pc = "fetched"
    /\ resp.status_code = 204
    /\ Len(resp.text) > 0
    /\ data.isNone
    /\ gets = 1

\* The parser has been entered: it is running, has returned, or has raised.
ParserInvoked ==
    \/ pc \in {"loop", "returning"}
    \/ result.present
    \/ exc \in {"AttributeError", "ValueError"}

\* C10: in the entry point the parser is invoked only after the fetch has
\* returned, and always, with whatever the fetch returned: after a non-200
\* status it gets None, and the run ends in AttributeError with no graph.
C10_ParseAfterFetch ==
    /\ ParserInvoked => resp # NoResp /\ gets = 1
    /\ pc \in {"loop", "returning"} =>
          resp.status_code = 200 /\ data = StrData(resp.text)
    /\ (resp # NoResp /\ pc # "fetched") => ParserInvoked
    /\ (resp # NoResp /\ resp.status_code # 200 /\ pc # "fetched") =>
          /\ pc \in {"raising", "idle"}
          /\ exc = "AttributeError"
          /\ ~result.present
          /\ g = EmptyGraph

C10_Witness ==
    /\ pc = "idle"
    /\ resp.status_code = 500
    /\ exc = "AttributeError"
    /\ ~result.present

====
